---- MODULE Spec2Model ----
(***************************************************************************)
(* Model of FATE-Flow's model registry utilities:                          *)
(*   python/fate_flow/pipelined_model/migrate_model.py                     *)
(*       compare_roles, migration                                          *)
(*   python/fate_flow/utils/model_utils.py                                 *)
(*       all_party_key, gen_party_model_id, gen_model_id,                  *)
(*       query_model_info_from_db, query_model_info_from_file,             *)
(*       gather_model_info_data, query_model_info, save_model_info         *)
(*                                                                         *)
(* The file store (model_local_cache) and the relational table             *)
(* (MachineLearningModelInfo) are the state; every call is one atomic      *)
(* action, since the code is single-threaded and synchronous.              *)
(***************************************************************************)
EXTENDS Integers, Sequences, FiniteSets, TLC

VARIABLES
    files,               \* model_local_cache: location -> stored artifacts
    db,                  \* rows of the MachineLearningModelInfo table
    remote,              \* remote model store (SyncModel): key -> uploaded artifacts
    ENABLE_MODEL_STORE,  \* the deployment's setting of that name
    ncalls,              \* number of calls made so far
    ret,                 \* the last call: operation, arguments, outcome, effects
    request_conf_roles,  \* compare_roles: first argument
    run_time_conf_roles, \* compare_roles: second argument
    cmp                  \* compare_roles: outcome of the call

vars == <<files, db, remote, ENABLE_MODEL_STORE, ncalls, ret, request_conf_roles, run_time_conf_roles, cmp>>

(***************************************************************************)
(* Bounds                                                                  *)
(***************************************************************************)
MaxLen == 3       \* longest party list given to compare_roles
MaxCalls == 2     \* calls made in one behaviour

\* identifiers the calls are made with
PartyIds == {9999, 10000}
Versions == {"job1", "job2"}

(***************************************************************************)
(* Python values handed to compare_roles.  An element of a list is an int  *)
(* or a str; a value of a role is a list, a str (sized and iterable, but   *)
(* no list) or an int (neither sized nor iterable).                        *)
(***************************************************************************)
IntItem(n) == [t |-> "int", n |-> n, s |-> ""]
StrItem(s) == [t |-> "str", n |-> 0, s |-> s]

\* str(item)
Str(item) == IF item.t = "int" THEN ToString(item.n) ELSE item.s

ListValue(items) == [kind |-> "list", items |-> items]
StrValue(chars) == [kind |-> "str", items |-> chars]
IntValue == [kind |-> "int", items |-> <<>>]

\* len(v) and iteration over v are defined (no TypeError)
Sized(v) == v.kind # "int"

\* isinstance(v, list)
IsList(v) == v.kind = "list"

\* the set of the elements of v as they are, not stringified
RawSet(v) == {v.items[i] : i \in DOMAIN v.items}

\* set(str(item) for item in v)
StrSet(v) == {Str(v.items[i]) : i \in DOMAIN v.items}

RECURSIVE CompareLoop(_, _, _, _)
\* the for loop of compare_roles over the keys still to visit
CompareLoop(keys, req, run, st) ==
    IF keys = {} \/ st.raised # "none" THEN st
    ELSE LET key == CHOOSE k \in keys : TRUE
             a == req[key]
             b == run[key]
         IN  IF ~Sized(a) \/ ~Sized(b)
             THEN [st EXCEPT !.raised = "TypeError"]
             ELSE CompareLoop(keys \ {key}, req, run,
                    [st EXCEPT
                       !.verify_format = st.verify_format
                                         /\ Len(a.items) = Len(b.items)
                                         /\ IsList(a),
                       !.verify_equality = st.verify_equality
                                           /\ StrSet(a) = StrSet(b)])

\* compare_roles(request_conf_roles, run_time_conf_roles)
compare_roles(req, run) ==
    IF DOMAIN req = DOMAIN run
    THEN LET st == CompareLoop(DOMAIN req, req, run,
                     [verify_format |-> TRUE, verify_equality |-> TRUE, raised |-> "none"])
         IN  IF st.raised # "none" THEN [raised |-> st.raised, value |-> FALSE]
             ELSE IF ~st.verify_format THEN [raised |-> "StructureError", value |-> FALSE]
             ELSE [raised |-> "none", value |-> st.verify_equality]
    ELSE [raised |-> "StructureError", value |-> FALSE]

(***************************************************************************)
(* Model identities (model_utils.py)                                       *)
(***************************************************************************)
Range(s) == {s[i] : i \in DOMAIN s}

RECURSIVE Join(_, _)
\* sep.join(parts)
Join(sep, parts) ==
    IF parts = <<>> THEN ""
    ELSE IF Len(parts) = 1 THEN parts[1]
    ELSE parts[1] \o sep \o Join(sep, Tail(parts))

RECURSIVE SortedInts(_)
\* sorted(S) of a set of ints
SortedInts(S) ==
    IF S = {} THEN <<>>
    ELSE LET m == CHOOSE x \in S : \A y \in S : x <= y
         IN  <<m>> \o SortedInts(S \ {m})

\* sorted() of the role names that can be keys of a role dict
RoleNameOrder == <<"arbiter", "guest", "host">>

\* all_party_key(all_party), all_party a dict (role name -> list of party ids)
all_party_key(all_party) ==
    IF DOMAIN all_party = {} THEN "all"
    ELSE LET sorted_role_name == SelectSeq(RoleNameOrder, LAMBDA r : r \in DOMAIN all_party)
             part(role_name) ==
                 LET ps == SortedInts(Range(all_party[role_name]))
                 IN  role_name \o "-" \o Join("_", [j \in DOMAIN ps |-> ToString(ps[j])])
         IN  Join("#", [i \in DOMAIN sorted_role_name |-> part(sorted_role_name[i])])

\* gen_model_id(all_party)
gen_model_id(all_party) == Join("#", <<all_party_key(all_party), "model">>)

\* gen_party_model_id(model_id, role, party_id): '#'.join([role, str(party_id), model_id]),
\* kept as its three parts (the directory name is their '#'-join)
gen_party_model_id(model_id, role, party_id) ==
    [role |-> role, party_id |-> Str(party_id), model_id |-> model_id]

\* the directory {role}#{party_id}#{model_id}/{model_version} of a PipelinedModel
PipelinedModel(party_model_id, model_version) ==
    [role |-> party_model_id.role, party_id |-> party_model_id.party_id,
     model_id |-> party_model_id.model_id, model_version |-> model_version]

\* PipelinedModel.exists()
Exists(F, loc) == loc \in DOMAIN F

\* the file store F with the artifacts e at loc
Put(F, loc, e) == [l \in DOMAIN F \cup {loc} |-> IF l = loc THEN e ELSE F[l]]

EmptyEntry == [comps |-> {}, pipe |-> <<>>, imported |-> FALSE, packaged |-> FALSE]

\* the artifacts at loc, an empty directory when nothing is there yet
EntryAt(F, loc) == IF loc \in DOMAIN F THEN F[loc] ELSE EmptyEntry

\* compare_version(version, "1.5.0") of fate_flow.utils.base_utils, on version triples
compare_version(a, b) ==
    IF a = b THEN "eq"
    ELSE LET i == CHOOSE k \in 1..3 : a[k] # b[k] /\ \A j \in 1..(k - 1) : a[j] = b[j]
         IN  IF a[i] > b[i] THEN "gt" ELSE "lt"

(***************************************************************************)
(* Metadata records (model_utils.py)                                       *)
(***************************************************************************)
\* the key of a record of the table: (role, party_id, model_id, model_version)
KeyOf(r) == [role |-> r.f_role, party_id |-> Str(r.f_party_id),
             model_id |-> r.f_model_id, model_version |-> r.f_model_version]

DBKeys(D) == {KeyOf(D[i]) : i \in DOMAIN D}

\* gather_model_info_data(model, local_role, local_party_id); the model has a pipeline
gather_model_info_data(F, loc, local_role, local_party_id) ==
    LET pipeline == F[loc].pipe[1]
        old == compare_version(pipeline.fate_version, <<1, 5, 1>>) = "lt"
    IN  [f_model_id |-> pipeline.model_id,
         f_model_version |-> pipeline.model_version,
         f_train_runtime_conf |-> pipeline.train_runtime_conf,
         f_fate_version |-> pipeline.fate_version,
         f_job_id |-> pipeline.model_version,
         f_role |-> local_role,
         f_party_id |-> local_party_id,
         f_runtime_conf |-> pipeline.train_runtime_conf,
         f_size |-> Cardinality(F[loc].comps) + 1,
         f_roles |-> IF old THEN pipeline.train_runtime_conf.role ELSE pipeline.roles,
         f_initiator_role |-> IF old THEN pipeline.train_runtime_conf.initiator.role
                              ELSE pipeline.initiator_role,
         f_initiator_party_id |-> IF old THEN pipeline.train_runtime_conf.initiator.party_id
                                  ELSE pipeline.initiator_party_id]

\* the keys of a gathered model_info dict
ModelInfoKeys == {"f_model_id", "f_model_version", "f_train_runtime_conf", "f_fate_version",
                  "f_job_id", "f_role", "f_party_id", "f_runtime_conf", "f_size", "f_roles",
                  "f_initiator_role", "f_initiator_party_id"}

\* model.save(force_insert=True) on the table, whose primary key is
\* (f_role, f_party_id, f_model_id, f_model_version); fault is what the database
\* does wrong in this call.  Error 1062 is the duplicate-key error.
DBInsert(D, row, fault) ==
    IF fault = "db_connection" THEN [db |-> D, raised |-> "OperationalError", errno |-> 0, rows |-> 0]
    ELSE IF KeyOf(row) \in DBKeys(D) THEN [db |-> D, raised |-> "IntegrityError", errno |-> 1062, rows |-> 0]
    ELSE IF fault = "db_integrity" THEN [db |-> D, raised |-> "IntegrityError", errno |-> 1048, rows |-> 0]
    ELSE IF fault = "db_rows" THEN [db |-> D, raised |-> "none", errno |-> 0, rows |-> 0]
    ELSE [db |-> Append(D, row), raised |-> "none", errno |-> 0, rows |-> 1]

\* the except clause of save_model_info: the error it lets out for an error of the save
SaveErrorOut(ins) ==
    IF ins.raised = "IntegrityError" THEN (IF ins.errno # 1062 THEN "IntegrityError" ELSE "none")
    ELSE IF ins.raised # "none" THEN ins.raised
    ELSE IF ins.rows # 1 THEN "Exception"
    ELSE "none"

\* the row save_model_info builds: the table stores a party id as text, whether
\* the caller gave an int (a request's party id) or a str (one parsed from a path)
RowOf(model_info) == [model_info EXCEPT !.f_party_id = StrItem(Str(model_info.f_party_id))]

\* save_model_info(model_info): st carries the stores and the effects so far.
\* SyncModel.upload packages the local directory of the row's key and fails
\* when there is none.
save_model_info(st, model_info, fault, enabled) ==
    LET row == RowOf(model_info)
        ins == DBInsert(st.db, row, fault)
        err == SaveErrorOut(ins)
        saved == ins.raised = "none" /\ ins.rows = 1
        loc == KeyOf(row)
    IN  IF err # "none" THEN [st EXCEPT !.db = ins.db, !.err = err]
        ELSE IF ~saved THEN [st EXCEPT !.db = ins.db]              \* duplicate: warning, return
        ELSE IF enabled /\ ~Exists(st.files, loc)
             THEN [st EXCEPT !.db = ins.db, !.wrote = @ \cup {"db"}, !.err = "FileNotFoundError"]
        ELSE [st EXCEPT !.db = ins.db,
                        !.remote = IF enabled THEN Put(st.remote, loc, st.files[loc]) ELSE @,
                        !.wrote = @ \cup {"db", "register"}
                                    \cup (IF enabled THEN {"upload"} ELSE {})]

(***************************************************************************)
(* migration (migrate_model.py)                                            *)
(***************************************************************************)
Has(d, k) == k \in DOMAIN d

\* the fields migration() reads before its try block
PreTryFields == {"model_id", "model_version", "local", "unify_model_version"}

\* the source model of a request
SourceLoc(config_data) ==
    PipelinedModel(gen_party_model_id(config_data.model_id, config_data.local.role,
                                      IntItem(config_data.local.party_id)),
                   config_data.model_version)

\* migrate_model: where the migrated artifacts are saved
MigrateLoc(config_data) ==
    PipelinedModel(gen_party_model_id(gen_model_id(config_data.migrate_role),
                                      config_data.local.role,
                                      IntItem(config_data.local.migrate_party_id)),
                   config_data.unify_model_version)

\* the key MLModel.get_or_none is asked for: is the unify model version occupied?
OccupiedKey(config_data) ==
    [role |-> config_data.local.role,
     party_id |-> Str(IntItem(config_data.local.party_id)),
     model_id |-> config_data.model_id,
     model_version |-> config_data.unify_model_version]

\* sync_model.remote_exists() and sync_model.download(True) of the source model
MigDownload(st, config_data, enabled) ==
    LET loc == SourceLoc(config_data)
    IN  IF enabled /\ loc \in DOMAIN st.remote
        THEN [st EXCEPT !.files = Put(st.files, loc, st.remote[loc]),
                        !.wrote = @ \cup {"download"}]
        ELSE st

\* source_model.exists(), the occupied check, and building migrate_model
MigChecks(st, config_data) ==
    IF st.err # "none" THEN st
    ELSE IF ~Exists(st.files, SourceLoc(config_data))
    THEN [st EXCEPT !.err = "FileNotFoundError"]
    ELSE IF OccupiedKey(config_data) \in DBKeys(st.db)
    THEN [st EXCEPT !.err = "FileExistsError"]
    ELSE IF ~Has(config_data, "migrate_role")
    THEN [st EXCEPT !.err = "KeyError"]
    ELSE st

\* the loop over the source's component models: transform, then save under migrate_model
MigComponents(st, config_data, fault) ==
    IF st.err # "none" THEN st
    ELSE LET rows == st.files[SourceLoc(config_data)].comps
             target == MigrateLoc(config_data)
         IN  IF rows = {} THEN st
             ELSE IF ~Has(config_data, "role")
                     \/ ~Has(config_data.role, "guest") \/ ~Has(config_data.migrate_role, "guest")
                     \/ ~Has(config_data.role, "host") \/ ~Has(config_data.migrate_role, "host")
             THEN [st EXCEPT !.err = "KeyError"]
             ELSE IF fault = "migrate_tool"
             THEN [st EXCEPT !.err = "ValueError"]
             ELSE [st EXCEPT
                     !.files = Put(st.files, target,
                                   [EntryAt(st.files, target) EXCEPT !.comps = @ \cup rows]),
                     !.wrote = @ \cup {"component"}]

\* the pipeline blob of the source with the migrated role, initiator, model id and version
MigPipeline(pipeline_model, config_data) ==
    LET train_runtime_conf == [role |-> config_data.migrate_role,
                               initiator |-> config_data.migrate_initiator]
        gated == compare_version(pipeline_model.fate_version, <<1, 5, 0>>) = "gt"
    IN  [pipeline_model EXCEPT
           !.train_runtime_conf = train_runtime_conf,
           !.model_id = gen_model_id(train_runtime_conf.role),
           !.model_version = config_data.unify_model_version,
           !.initiator_role = IF gated THEN config_data.migrate_initiator.role ELSE @,
           !.initiator_party_id = IF gated THEN config_data.migrate_initiator.party_id ELSE @]

\* read the source's pipeline, update it, save it under migrate_model,
\* and generate the import config
MigSavePipeline(st, config_data, fault) ==
    IF st.err # "none" THEN st
    ELSE LET source == st.files[SourceLoc(config_data)]
             target == MigrateLoc(config_data)
         IN  IF source.pipe = <<>> THEN [st EXCEPT !.err = "FileNotFoundError"]
             ELSE IF ~Has(config_data, "migrate_initiator") THEN [st EXCEPT !.err = "KeyError"]
             ELSE IF fault = "save_pipeline" THEN [st EXCEPT !.err = "OSError"]
             ELSE [st EXCEPT
                     !.files = Put(st.files, target,
                                   [EntryAt(st.files, target) EXCEPT
                                      !.pipe = <<MigPipeline(source.pipe[1], config_data)>>,
                                      !.imported = TRUE]),
                     !.wrote = @ \cup {"pipeline", "import_config"}]

\* gather_and_save_model_info(migrate_model, local_role, local_party_id)
gather_and_save_model_info(st, loc, local_role, local_party_id, fault, enabled) ==
    IF st.err # "none" THEN st
    ELSE save_model_info(st, gather_model_info_data(st.files, loc, local_role, local_party_id),
                         fault, enabled)

\* migrate_model.packaging_model()
MigPackage(st, config_data) ==
    IF st.err # "none" THEN st
    ELSE LET target == MigrateLoc(config_data)
         IN  [st EXCEPT !.files = Put(st.files, target, [st.files[target] EXCEPT !.packaged = TRUE]),
                        !.wrote = @ \cup {"package"}]

\* the try block of migration(config_data)
MigTry(st, config_data, fault, enabled) ==
    LET s1 == MigDownload(st, config_data, enabled)
        s2 == MigChecks(s1, config_data)
        s3 == MigComponents(s2, config_data, fault)
        s4 == MigSavePipeline(s3, config_data, fault)
        s5 == gather_and_save_model_info(s4, MigrateLoc(config_data), config_data.local.role,
                                         IntItem(config_data.local.party_id), fault, enabled)
    IN  MigPackage(s5, config_data)

\* migration(config_data): the stores after the call and what the call returns
migration(st, config_data, fault, enabled) ==
    IF \E f \in PreTryFields : ~Has(config_data, f)
    THEN [st |-> st, raised |-> "KeyError", code |-> -1, result |-> {}]
    ELSE LET s == MigTry(st, config_data, fault, enabled)
         IN  IF s.err = "none"
             THEN [st |-> s, raised |-> "none", code |-> 0,
                   result |-> {[model_id |-> gen_party_model_id(
                                                 gen_model_id(config_data.migrate_role),
                                                 config_data.local.role,
                                                 IntItem(config_data.local.migrate_party_id)),
                                model_version |-> config_data.unify_model_version,
                                path |-> MigrateLoc(config_data)]}]
             ELSE [st |-> s, raised |-> "none", code |-> 100, result |-> {}]

(***************************************************************************)
(* Metadata queries (model_utils.py)                                       *)
(***************************************************************************)
IdentityFields == {"role", "party_id", "model_id", "model_version"}

\* a keyword argument as the text it is compared or formatted as
KwStr(kwargs, k) == IF k = "party_id" THEN Str(kwargs[k]) ELSE kwargs[k]

\* the select(*filters): the columns f_<k> the table has, all columns when there are none
SelectFields(query_filters) ==
    LET filters == {"f_" \o k : k \in query_filters} \cap ModelInfoKeys
    IN  IF filters = {} THEN ModelInfoKeys ELSE filters

\* query_model_info_from_db(query_filters, **kwargs)
query_model_info_from_db(D, query_filters, kwargs) ==
    LET conditions == DOMAIN kwargs \cap IdentityFields
        hit == {i \in DOMAIN D : \A k \in conditions : KeyOf(D[i])[k] = KwStr(kwargs, k)}
        fields == SelectFields(query_filters)
        models == {[f \in fields |-> D[i][f]] : i \in hit}
    IN  IF models = {} THEN [code |-> 100, data |-> {}]
        ELSE [code |-> 0, data |-> models]

\* the glob pattern of query_model_info_from_file: an argument left out is '*'
Pattern(kwargs) ==
    [k \in IdentityFields |-> IF k \in DOMAIN kwargs THEN KwStr(kwargs, k) ELSE "*"]

\* glob.glob(f".../{role}#{party_id}#{model_id}/{model_version}")
Glob(F, pattern) ==
    {loc \in DOMAIN F : \A k \in IdentityFields : pattern[k] = "*" \/ pattern[k] = loc[k]}

\* a handler that lets the error of save_model_info through
BackfillReraise(err) == err

\* the handler of the try around save_model_info in query_model_info_from_file:
\* the error that leaves it, given the error save_model_info raised
BackfillHandler(err) == "none"

\* the filtering of model_info by query_filters: deleting a key of the dict the
\* loop iterates over raises RuntimeError at the next step of the iteration
FilterModelInfo(model_info, query_filters) ==
    IF query_filters # {} /\ \E k \in DOMAIN model_info : k \notin query_filters
    THEN "RuntimeError"
    ELSE "none"

RECURSIVE FileLoop(_, _, _, _, _, _)
\* the loop of query_model_info_from_file over fp_list
FileLoop(st, fp_list, query_filters, save_to_db, fault, enabled) ==
    IF fp_list = <<>> \/ st.err # "none" THEN st
    ELSE LET fp == Head(fp_list)
         IN  IF st.files[fp].pipe = <<>>
             THEN [st EXCEPT !.err = "FileNotFoundError"]
             ELSE LET model_info == gather_model_info_data(st.files, fp, fp.role, StrItem(fp.party_id))
                      saved == IF save_to_db
                               THEN LET s == save_model_info(st, model_info, fault, enabled)
                                    IN  [s EXCEPT !.err = BackfillHandler(s.err),
                                                  !.save_errors = @ \cup ({s.err} \ {"none"})]
                               ELSE st
                      err == FilterModelInfo(model_info, query_filters)
                  IN  IF err # "none" THEN [saved EXCEPT !.err = err]
                      ELSE FileLoop([saved EXCEPT !.models = @ \cup {model_info}],
                                    Tail(fp_list), query_filters, save_to_db, fault, enabled)

\* query_model_info_from_file(..., query_filters, save_to_db); fp_list is the glob's
\* result in the order the file system lists it
query_model_info_from_file(st, fp_list, query_filters, save_to_db, fault, enabled) ==
    LET s == FileLoop([st EXCEPT !.scanned = TRUE], fp_list, query_filters, save_to_db,
                      fault, enabled)
    IN  IF s.err # "none" THEN [st |-> s, raised |-> s.err, code |-> -1, data |-> {}]
        ELSE IF s.models = {} THEN [st |-> s, raised |-> "none", code |-> 100, data |-> {}]
        ELSE [st |-> s, raised |-> "none", code |-> 0, data |-> s.models]

\* the end of query_model_info: the file query's answer when it found a model (or
\* raised), the not-found answer otherwise
FileAnswer(from_file) ==
    IF from_file.raised # "none" \/ from_file.code = 0 THEN from_file
    ELSE [st |-> from_file.st, raised |-> "none", code |-> 100, data |-> {}]

\* query_model_info(file_only, query_filters, **kwargs)
query_model_info(st, file_only, fp_list, query_filters, kwargs, fault, enabled) ==
    LET from_db == query_model_info_from_db(st.db, query_filters, kwargs)
    IN  IF ~file_only /\ from_db.code = 0
        THEN [st |-> st, raised |-> "none", code |-> 0, data |-> from_db.data]
        ELSE FileAnswer(query_model_info_from_file(st, fp_list, query_filters, ~file_only,
                                                   fault, enabled))

(***************************************************************************)
(* Inputs                                                                  *)
(***************************************************************************)
\* the roles the source model was trained with, and the roles requests migrate to:
\* the same, another guest party, and a longer guest list
SourceRoles == [guest |-> <<9999>>, host |-> <<10000>>]
NewRoles == [guest |-> <<10000>>, host |-> <<10000>>]
LongRoles == [guest |-> <<9999, 10000>>, host |-> <<10000>>]
MigrateRoles == {SourceRoles, NewRoles, LongRoles}

ModelIds == {gen_model_id(SourceRoles), gen_model_id(NewRoles)}

\* d without its key k
Drop(d, k) == [x \in DOMAIN d \ {k} |-> d[x]]

FullConfigs ==
    {[model_id |-> m, model_version |-> v,
      local |-> [role |-> "guest", party_id |-> p, migrate_party_id |-> q],
      unify_model_version |-> u,
      role |-> SourceRoles, migrate_role |-> mr,
      migrate_initiator |-> [role |-> "guest", party_id |-> q]] :
        m \in ModelIds, v \in Versions, p \in PartyIds, q \in PartyIds,
        u \in Versions, mr \in MigrateRoles}

\* the requests that move the trained model to party 10000 as version job2: the
\* ones tried with a field left out or with a collaborator failing
FaultedConfigs ==
    {c \in FullConfigs : /\ c.model_id = gen_model_id(SourceRoles)
                         /\ c.model_version = "job1"
                         /\ c.local.party_id = 9999
                         /\ c.local.migrate_party_id = 10000
                         /\ c.unify_model_version = "job2"}

\* requests with a field left out
PartialConfigs ==
    {Drop(c, f) : c \in FaultedConfigs,
                  f \in {"unify_model_version", "migrate_role", "migrate_initiator", "role"}}
    \cup {[c EXCEPT !.role = Drop(c.role, "host")] : c \in FaultedConfigs}

\* what a collaborator of the call does wrong: nothing, the migrate tool or the
\* file store raising, or the database failing the save
MigrationFaults == {"none", "migrate_tool", "save_pipeline",
                    "db_connection", "db_integrity", "db_rows"}
QueryFaults == {"none", "db_connection", "db_integrity", "db_rows"}

QueryKeys ==
    {[role |-> "guest", party_id |-> IntItem(p), model_id |-> m, model_version |-> "job1"] :
        p \in PartyIds, m \in ModelIds}

\* the keyword arguments of a query: a whole identity, nothing, or a glob pattern
QueryKwargs == QueryKeys \cup {<<>>, [model_id |-> "*"]}

QueryFilters == {{}, {"train_runtime_conf"}, ModelInfoKeys}

\* the orders a set can be listed in
Orders(S) == {o \in [1..Cardinality(S) -> S] : Range(o) = S}

(***************************************************************************)
(* The calls                                                               *)
(***************************************************************************)
\* the stores as a call finds them, with no effect recorded yet
Start == [files |-> files, db |-> db, remote |-> remote, wrote |-> {}, err |-> "none",
          models |-> {}, save_errors |-> {}, scanned |-> FALSE]

\* the stores as the call leaves them, and the record of the call
Finish(op, args, fault, r) ==
    /\ files' = r.st.files
    /\ db' = r.st.db
    /\ remote' = r.st.remote
    /\ ret' = [op |-> op, args |-> args, fault |-> fault, raised |-> r.raised,
               code |-> r.code, out |-> r.out, wrote |-> r.st.wrote,
               scanned |-> r.st.scanned, save_errors |-> r.st.save_errors]
    /\ UNCHANGED <<ENABLE_MODEL_STORE, request_conf_roles, run_time_conf_roles, cmp>>

Migration ==
    \E config_data \in FullConfigs \cup PartialConfigs, fault \in MigrationFaults :
       /\ fault # "none" => config_data \in FaultedConfigs
       /\ LET r == migration(Start, config_data, fault, ENABLE_MODEL_STORE)
          IN  Finish("migration", config_data, fault,
                     [st |-> r.st, raised |-> r.raised, code |-> r.code, out |-> r.result])

QueryModelInfo ==
    \E kwargs \in QueryKwargs, file_only \in BOOLEAN, query_filters \in QueryFilters,
       fault \in QueryFaults :
          /\ fault # "none" => ~file_only
          /\ \E fp_list \in Orders(Glob(files, Pattern(kwargs))) :
                LET r == query_model_info(Start, file_only, fp_list, query_filters, kwargs,
                                          fault, ENABLE_MODEL_STORE)
                IN  Finish("query_model_info",
                           [kwargs |-> kwargs, file_only |-> file_only,
                            query_filters |-> query_filters, save_to_db |-> ~file_only],
                           fault,
                           [st |-> r.st, raised |-> r.raised, code |-> r.code, out |-> r.data])

QueryModelInfoFromFile ==
    \E kwargs \in QueryKwargs, save_to_db \in BOOLEAN, query_filters \in QueryFilters,
       fault \in QueryFaults :
          /\ fault # "none" => save_to_db
          /\ \E fp_list \in Orders(Glob(files, Pattern(kwargs))) :
                LET r == query_model_info_from_file(Start, fp_list, query_filters, save_to_db,
                                                    fault, ENABLE_MODEL_STORE)
                IN  Finish("query_model_info_from_file",
                           [kwargs |-> kwargs, file_only |-> TRUE,
                            query_filters |-> query_filters, save_to_db |-> save_to_db],
                           fault,
                           [st |-> r.st, raised |-> r.raised, code |-> r.code, out |-> r.data])

\* save_model_info(model_info), for the model_info gathered from a model of the cache
SaveModelInfo ==
    \E loc \in DOMAIN files, fault \in QueryFaults :
       /\ files[loc].pipe # <<>>
       /\ LET model_info == gather_model_info_data(files, loc, loc.role, StrItem(loc.party_id))
              s == save_model_info(Start, model_info, fault, ENABLE_MODEL_STORE)
          IN  Finish("save_model_info", model_info, fault,
                     [st |-> [s EXCEPT !.err = "none"], raised |-> s.err,
                      code |-> -1, out |-> {}])

\* compare_roles(request_conf_roles, run_time_conf_roles)
CompareRoles ==
    /\ ~cmp.called
    /\ LET r == compare_roles(request_conf_roles, run_time_conf_roles)
       IN  cmp' = [called |-> TRUE, raised |-> r.raised, value |-> r.value]
    /\ UNCHANGED <<files, db, remote, ENABLE_MODEL_STORE, ncalls, ret,
                   request_conf_roles, run_time_conf_roles>>

(***************************************************************************)
(* Initial states                                                          *)
(***************************************************************************)
\* the pipeline blob a training job leaves in the cache
SourcePipeline(fate_version, job) ==
    [model_id |-> gen_model_id(SourceRoles), model_version |-> job,
     train_runtime_conf |-> [role |-> SourceRoles,
                             initiator |-> [role |-> "guest", party_id |-> 9999]],
     fate_version |-> fate_version, roles |-> SourceRoles,
     initiator_role |-> "guest", initiator_party_id |-> 9999]

TrainedLoc(job) ==
    PipelinedModel(gen_party_model_id(gen_model_id(SourceRoles), "guest", IntItem(9999)), job)

TrainedEntry(fate_version, job) ==
    [comps |-> {"hetero_lr_0"}, pipe |-> <<SourcePipeline(fate_version, job)>>,
     imported |-> FALSE, packaged |-> FALSE]

NoCall == [op |-> "none", args |-> <<>>, fault |-> "none", raised |-> "none", code |-> -1,
           out |-> {}, wrote |-> {}, scanned |-> FALSE, save_errors |-> {}]

NoCompare == [called |-> FALSE, raised |-> "none", value |-> FALSE]

\* the cache holds the models of the training jobs `jobs`; the jobs listed in
\* `registered` have their record in the table (and their upload, when enabled)
InitStores(jobs, registered, fate_version) ==
    /\ files = [l \in {TrainedLoc(job) : job \in jobs} |-> TrainedEntry(fate_version, l.model_version)]
    /\ db = [i \in DOMAIN registered |->
               RowOf(gather_model_info_data(files, TrainedLoc(registered[i]), "guest", IntItem(9999)))]
    /\ ENABLE_MODEL_STORE \in BOOLEAN
    /\ remote = IF ENABLE_MODEL_STORE
                THEN [l \in {TrainedLoc(job) : job \in Range(registered)} |->
                        TrainedEntry(fate_version, l.model_version)]
                ELSE <<>>
    /\ ncalls = 0
    /\ ret = NoCall
    /\ request_conf_roles = <<>>
    /\ run_time_conf_roles = <<>>
    /\ cmp = NoCompare

FateVersions == {<<1, 4, 0>>, <<1, 7, 0>>}

\* one trained model in the cache, registered in the table or not yet
Init ==
    \E fate_version \in FateVersions, registered \in {<<>>, <<"job1">>} :
       InitStores({"job1"}, registered, fate_version)

\* one more call, of at most MaxCalls
Counted == ncalls < MaxCalls /\ ncalls' = ncalls + 1

Next ==
    \/ Counted /\ Migration
    \/ Counted /\ QueryModelInfo
    \/ Counted /\ QueryModelInfoFromFile
    \/ Counted /\ SaveModelInfo

Spec == Init /\ [][Next]_vars

(***************************************************************************)
(* The metadata calls alone: they add no model to the cache, so any number *)
(* of them is explored, over a cache with the models of two training jobs. *)
(***************************************************************************)
InitQuery ==
    \E fate_version \in FateVersions, jobs \in SUBSET Versions :
       \E registered \in Orders(jobs) :
          InitStores(Versions, registered, fate_version)

NextQuery ==
    \/ QueryModelInfo /\ UNCHANGED ncalls
    \/ QueryModelInfoFromFile /\ UNCHANGED ncalls
    \/ SaveModelInfo /\ UNCHANGED ncalls

SpecQuery == InitQuery /\ [][NextQuery]_vars

(***************************************************************************)
(* compare_roles on its own: the two dicts are drawn at the start.         *)
(***************************************************************************)
\* the lists of at most n elements of S
Lists(S, n) == UNION {[1..k -> S] : k \in 0..n}

RequestValues ==
    {ListValue(l) : l \in Lists({IntItem(9999), IntItem(10000), StrItem("9999")}, MaxLen)}
    \cup {StrValue(<<StrItem("9")>>), IntValue}

RunTimeValues ==
    {ListValue(l) : l \in Lists({IntItem(9999), IntItem(10000)}, MaxLen)}
    \cup {StrValue(<<StrItem("9")>>), StrValue(<<StrItem("9"), StrItem("8")>>), IntValue}

HostValues == {ListValue(<<IntItem(10000)>>), ListValue(<<IntItem(9999)>>)}

\* the role dicts with a guest of G, a host of H, both or neither
RoleDicts(G, H) ==
    {[guest |-> g] : g \in G} \cup {[host |-> h] : h \in H}
    \cup {[guest |-> g, host |-> h] : g \in G, h \in H} \cup {<<>>}

InitCompare ==
    /\ request_conf_roles \in RoleDicts(RequestValues, HostValues)
    /\ run_time_conf_roles \in RoleDicts(RunTimeValues, HostValues)
    /\ cmp = NoCompare
    /\ files = <<>>
    /\ db = <<>>
    /\ remote = <<>>
    /\ ENABLE_MODEL_STORE = FALSE
    /\ ncalls = 0
    /\ ret = NoCall

NextCompare == CompareRoles

SpecCompare == InitCompare /\ [][NextCompare]_vars

(***************************************************************************)
(* Properties                                                              *)
(***************************************************************************)
\* the artifacts of a migrated model and its record
MigratedArtifacts == {"component", "pipeline", "import_config", "db", "package"}

\* the last call was migration() with a complete request and no collaborator failing
CleanMigration(r) ==
    r.op = "migration" /\ r.fault = "none" /\ r.args \in FullConfigs

\* the identity under which migration() registers the migrated model
RecordKey(config_data) ==
    [role |-> config_data.local.role,
     party_id |-> ToString(config_data.local.party_id),
     model_id |-> gen_model_id(config_data.migrate_role),
     model_version |-> config_data.unify_model_version]

\* C1: a migration() whose target identity (role, party, model_id, version) is
\* already registered -- under the party the migrated files go to and under the
\* party the record is written for -- returns a failure status with an empty
\* result and writes no component artifact, pipeline blob or database record.
C1_OccupiedTargetFails ==
    [][(/\ CleanMigration(ret')
        /\ MigrateLoc(ret'.args) \in DBKeys(db)
        /\ RecordKey(ret'.args) \in DBKeys(db))
       => (/\ ret'.code # 0
           /\ ret'.out = {}
           /\ ret'.wrote \cap MigratedArtifacts = {})]_vars

\* two role dicts of a request have the same shape: same keys, same list lengths
SameShape(a, b) ==
    /\ DOMAIN a = DOMAIN b
    /\ \A k \in DOMAIN a : Len(a[k]) = Len(b[k])

\* C2: migration() rejects a request whose declared and target roles differ in
\* shape with an error status, before any artifact of the migrated model is written.
C2_ShapeMismatchRejected ==
    (CleanMigration(ret) /\ ~SameShape(ret.args.migrate_role, ret.args.role))
    => (/\ ret.raised # "none" \/ ret.code # 0
        /\ ret.wrote \cap MigratedArtifacts = {})

\* both dicts hold only sized values (lists and strings)
AllSized ==
    /\ \A k \in DOMAIN request_conf_roles : Sized(request_conf_roles[k])
    /\ \A k \in DOMAIN run_time_conf_roles : Sized(run_time_conf_roles[k])

\* for every role the two values are lists of equal length
ListsOfEqualLength ==
    \A k \in DOMAIN request_conf_roles :
       /\ request_conf_roles[k].kind = "list"
       /\ run_time_conf_roles[k].kind = "list"
       /\ Len(request_conf_roles[k].items) = Len(run_time_conf_roles[k].items)

\* C3: compare_roles raises the structure-mismatch error whenever the key sets
\* differ or some role's two values differ in length or either is not a list; it
\* returns a boolean only when the key sets are equal and every role maps to
\* lists of equal length on both sides.
C3_RejectsShapeMismatch ==
    (cmp.called /\ AllSized)
    => LET shaped == /\ DOMAIN request_conf_roles = DOMAIN run_time_conf_roles
                     /\ ListsOfEqualLength
       IN  /\ ~shaped => cmp.raised = "StructureError"
           /\ cmp.raised = "none" => shaped

\* how often the text s occurs among the stringified elements of v
Occurrences(v, s) == Cardinality({i \in DOMAIN v.items : Str(v.items[i]) = s})

\* the two values hold the same stringified elements with the same multiplicities
SameMultiset(a, b) ==
    \A i \in DOMAIN a.items \cup DOMAIN b.items :
       /\ i \in DOMAIN a.items => Occurrences(a, Str(a.items[i])) = Occurrences(b, Str(a.items[i]))
       /\ i \in DOMAIN b.items => Occurrences(a, Str(b.items[i])) = Occurrences(b, Str(b.items[i]))

\* the two values hold the same stringified elements, multiplicities ignored
SameStrings(a, b) ==
    /\ \A i \in DOMAIN a.items : \E j \in DOMAIN b.items : Str(a.items[i]) = Str(b.items[j])
    /\ \A j \in DOMAIN b.items : \E i \in DOMAIN a.items : Str(a.items[i]) = Str(b.items[j])

\* C4 (as claimed): when compare_roles returns, it returns True exactly when for
\* every role the two lists are equal as multisets of their stringified values.
C4_TrueIffSameMultisets ==
    (cmp.called /\ cmp.raised = "none")
    => (cmp.value <=> \A k \in DOMAIN request_conf_roles :
                         SameMultiset(request_conf_roles[k], run_time_conf_roles[k]))

\* C4 (amended): when compare_roles returns, it returns True exactly when for
\* every role the two values hold the same set of stringified elements; how often
\* an element occurs is ignored.
C4_TrueIffSameStringSets ==
    (cmp.called /\ cmp.raised = "none")
    => (cmp.value <=> \A k \in DOMAIN request_conf_roles :
                         SameStrings(request_conf_roles[k], run_time_conf_roles[k]))

\* compare_roles returned True for lists that differ as multisets
C4_Witness ==
    /\ cmp.called /\ cmp.raised = "none" /\ cmp.value
    /\ \E k \in DOMAIN request_conf_roles :
          /\ Len(request_conf_roles[k].items) = MaxLen
          /\ ~SameMultiset(request_conf_roles[k], run_time_conf_roles[k])

\* C5: a migration() whose target role data equals the source's, on an existing
\* source model and a free target identity, succeeds, and the identity it
\* produces differs from the source's, so the source's artifacts are not overwritten.
C5_SameRolesNewIdentity ==
    [][(/\ CleanMigration(ret')
        /\ ret'.args.migrate_role = ret'.args.role
        /\ ret'.args.local.migrate_party_id = ret'.args.local.party_id
        /\ Exists(files, SourceLoc(ret'.args))
        /\ files[SourceLoc(ret'.args)].pipe # <<>>
        /\ MigrateLoc(ret'.args) \notin DBKeys(db)
        /\ RecordKey(ret'.args) \notin DBKeys(db))
       => (/\ ret'.code = 0
           /\ MigrateLoc(ret'.args) # SourceLoc(ret'.args))]_vars

QueryOps == {"query_model_info", "query_model_info_from_file"}

\* no two rows of the table have the same (role, party_id, model_id, model_version)
UniqueKeys(D) == \A i, j \in DOMAIN D : KeyOf(D[i]) = KeyOf(D[j]) => i = j

\* C6: the table never holds two records of one identity, and a backfill (a file
\* query with save_to_db) of models whose records are all present leaves the
\* table unchanged, uploads and registers nothing, and still returns the models.
C6_BackfillKeepsOneRecord ==
    [][/\ UniqueKeys(db')
       /\ LET found == Glob(files, Pattern(ret'.args.kwargs))
          IN  (/\ ret'.op \in QueryOps
               /\ ret'.args.save_to_db
               /\ ret'.scanned
               /\ ret'.fault = "none"
               /\ found # {}
               /\ \A loc \in found : files[loc].pipe # <<>> /\ loc \in DBKeys(db))
              => (/\ db' = db
                  /\ ret'.wrote \cap {"db", "upload", "register"} = {}
                  /\ ret'.raised = "none"
                  /\ ret'.code = 0
                  /\ \A loc \in found : \E m \in ret'.out : KeyOf(m) = loc)]_vars

\* some row of the table matches the identity arguments of a query
DBHit(D, kwargs) ==
    \E i \in DOMAIN D :
       \A k \in DOMAIN kwargs \cap IdentityFields : KeyOf(D[i])[k] = KwStr(kwargs, k)

\* C7: query_model_info with file_only false returns the table's records with
\* code 0 on a hit, without scanning the cache or writing to the table; on a miss
\* it returns code 0 with one record per matching model of the cache, whatever
\* query_filters is; it returns code 100 with an empty list only when neither
\* store has a match.
C7_TableFirstThenCache ==
    [][(/\ ret'.op = "query_model_info"
        /\ ~ret'.args.file_only
        /\ ret'.fault = "none"
        /\ \A loc \in DOMAIN files : files[loc].pipe # <<>>)
       => LET kwargs == ret'.args.kwargs
              found == Glob(files, Pattern(kwargs))
          IN  /\ DBHit(db, kwargs)
                 => (/\ ret'.raised = "none" /\ ret'.code = 0 /\ ret'.out # {}
                     /\ ~ret'.scanned /\ db' = db)
              /\ (~DBHit(db, kwargs) /\ found # {})
                 => (/\ ret'.raised = "none" /\ ret'.code = 0
                     /\ Cardinality(ret'.out) = Cardinality(found))
              /\ (~DBHit(db, kwargs) /\ found = {})
                 => (ret'.raised = "none" /\ ret'.code = 100 /\ ret'.out = {})
              /\ (ret'.raised = "none" /\ ret'.code = 100)
                 => (~DBHit(db, kwargs) /\ found = {})]_vars

\* the errors save_model_info raises for a failed save
PersistenceErrors == {"IntegrityError", "OperationalError", "Exception"}

C9_AlwaysReturnsStatus ==
    ret.op = "migration"
    => (/\ ret.raised = "none"
        /\ ret.code = 0 => ret.out # {}
        /\ ret.code # 0 => ret.out = {})

\* C10: after a successful migration() the table holds a record with the
\* (role, party_id, model_id, model_version) of the location the migrated
\* artifacts were saved under.
C10_RecordMatchesLocation ==
    (CleanMigration(ret) /\ ret.code = 0)
    => (/\ Exists(files, MigrateLoc(ret.args))
        /\ MigrateLoc(ret.args) \in DBKeys(db))

====
